---- MODULE Spec2Model ----
(***************************************************************************)
(* xtag: tags on files and boolean search terms over them.                 *)
(*                                                                         *)
(* Texts are sequences of one-character strings.  An Option<String> is a   *)
(* sequence of zero (None) or one (Some) texts.  A HashMap is a sequence   *)
(* of <<key, value>> entries with distinct keys, in the order the map      *)
(* happens to iterate in.                                                  *)
(***************************************************************************)
EXTENDS Integers, Sequences, FiniteSets, TLC

VARIABLES tags, term, pair, searcher, result, text, xattr, decoded, op,
          from, to, renamed, links, visited, calls

\* the arguments and the outcome of rename
renameVars == <<from, to, renamed>>

vars == <<tags, term, pair, searcher, result, text, xattr, decoded, op,
          from, to, renamed, links, visited, calls>>

(***************************************************************************)
(* Bounds of the model.                                                    *)
(***************************************************************************)
MaxOperands == 4
MaxEntries == 2
NumCalls == 2
MaxPattern == 3

(***************************************************************************)
(* Option<String> and Result<T, XTagError>.                                *)
(***************************************************************************)
None == <<>>

Some(s) == <<s>>

Ok(v) == [err |-> "", val |-> v]

Err(e) == [err |-> e, val |-> FALSE]

(***************************************************************************)
(* regex crate, the part the search terms of the model use: literals, `.`, *)
(* the anchors `^` and `$`, a postfix `+` on a one-character item, and     *)
(* top-level alternation `|`.  is_match is an unanchored search.           *)
(***************************************************************************)
RECURSIVE SplitOn(_, _, _)
SplitOn(s, sep, cur) ==
    IF s = <<>> THEN <<cur>>
    ELSE IF Head(s) = sep THEN <<cur>> \o SplitOn(Tail(s), sep, <<>>)
    ELSE SplitOn(Tail(s), sep, Append(cur, Head(s)))

Branches(re) == SplitOn(re, "|", <<>>)

Balanced(re) ==
    /\ \A i \in 1..Len(re) :
         Cardinality({j \in 1..i : re[j] = ")"}) <= Cardinality({j \in 1..i : re[j] = "("})
    /\ Cardinality({j \in 1..Len(re) : re[j] = ")"}) = Cardinality({j \in 1..Len(re) : re[j] = "("})

\* a `+` needs an item to repeat
Repeatable(re) ==
    \A i \in 1..Len(re) : re[i] = "+" => (i > 1 /\ re[i - 1] \notin {"|", "+", "("})

RegexNew(re) == IF Balanced(re) /\ Repeatable(re) THEN Ok(re) ELSE Err("Regex")

\* positions reached from the positions I by matching the item c once
Step(c, s, I) ==
    IF c = "^" THEN I \cap {1}
    ELSE IF c = "$" THEN I \cap {Len(s) + 1}
    ELSE {i + 1 : i \in {j \in I : j <= Len(s) /\ (c = "." \/ s[j] = c)}}

RECURSIVE Plus(_, _, _)
Plus(c, s, I) ==
    LET J == Step(c, s, I) IN IF J \subseteq I THEN I \cup J ELSE Plus(c, s, I \cup J)

RECURSIVE Ends(_, _, _, _)
Ends(b, j, s, I) ==
    IF j > Len(b) \/ I = {} THEN I
    ELSE IF j < Len(b) /\ b[j + 1] = "+"
         THEN Ends(b, j + 2, s, Plus(b[j], s, Step(b[j], s, I)))
         ELSE Ends(b, j + 1, s, Step(b[j], s, I))

RegexIsMatch(re, s) ==
    \E n \in 1..Len(Branches(re)) : Ends(Branches(re)[n], 1, s, 1..(Len(s) + 1)) # {}

(***************************************************************************)
(* searcher.rs                                                             *)
(***************************************************************************)
starts_with(s, c) == Len(s) > 0 /\ s[1] = c

ends_with(s, c) == Len(s) > 0 /\ s[Len(s)] = c

\* expand_regex as it is in parse_search.rs: the anchors are always added
expand_regex_always(regex) == <<"^">> \o regex \o <<"$">>

expand_regex(regex) ==
    IF starts_with(regex, "^") /\ ends_with(regex, "$")
    THEN regex
    ELSE <<"^">> \o regex \o <<"$">>

\* str::parse::<i32>: an optional sign, then one or more decimal digits; the
\* value is accumulated digit by digit with checked arithmetic, downwards
\* for a negative number.
I32_MIN == (0 - 2147483647) - 1

I32_MAX == 2147483647

Digits == <<"0", "1", "2", "3", "4", "5", "6", "7", "8", "9">>

IsDigit(c) == \E d \in 1..10 : Digits[d] = c

DigitVal(c) == (CHOOSE d \in 1..10 : Digits[d] = c) - 1

RECURSIVE CheckedDigits(_, _, _)
CheckedDigits(s, negative, acc) ==
    IF s = <<>> THEN Ok(acc)
    ELSE IF ~IsDigit(Head(s)) THEN Err("IntParse")
    ELSE LET d == DigitVal(Head(s))
         IN  IF negative
             THEN IF acc < ((I32_MIN + d) + 9) \div 10 THEN Err("IntParse")
                  ELSE CheckedDigits(Tail(s), negative, (10 * acc) - d)
             ELSE IF acc > (I32_MAX - d) \div 10 THEN Err("IntParse")
                  ELSE CheckedDigits(Tail(s), negative, (10 * acc) + d)

parse_i32(s) ==
    LET signed == Len(s) > 0 /\ s[1] \in {"+", "-"}
        digits == IF signed THEN Tail(s) ELSE s
    IN  IF digits = <<>> THEN Err("IntParse")
        ELSE CheckedDigits(digits, starts_with(s, "-"), 0)

\* Display for i32
RECURSIVE NatToText(_)
NatToText(n) == IF n < 10 THEN <<Digits[n + 1]>> ELSE Append(NatToText(n \div 10), Digits[(n % 10) + 1])

i32_to_string(n) ==
    IF n = I32_MIN THEN <<"-", "2", "1", "4", "7", "4", "8", "3", "6", "4", "8">>
    ELSE IF n < 0 THEN <<"-">> \o NatToText(0 - n)
    ELSE NatToText(n)

new_and(lhs, rhs) == [k |-> "And", lhs |-> lhs, rhs |-> rhs]

new_or(lhs, rhs) == [k |-> "Or", lhs |-> lhs, rhs |-> rhs]

new_not(lhs) == [k |-> "Not", lhs |-> lhs]

new_tag(regex) ==
    LET re == RegexNew(expand_regex(regex))
    IN  IF re.err # "" THEN Err("Regex") ELSE Ok([k |-> "Tag", regex |-> re.val])

new_equal(tag_regex, value_regex) ==
    LET tre == RegexNew(expand_regex(tag_regex))
        vre == RegexNew(expand_regex(value_regex))
    IN  IF tre.err # "" THEN Err("Regex")
        ELSE IF vre.err # "" THEN Err("Regex")
        ELSE Ok([k |-> "Equal", tag_regex |-> tre.val, value_regex |-> vre.val])

new_inequal(tag_regex, value_regex) ==
    LET equal == new_equal(tag_regex, value_regex)
    IN  IF equal.err # "" THEN equal ELSE Ok(new_not(equal.val))

\* new_less, new_less_equal, new_greater, new_greater_equal differ in the variant only
new_ordering(k, tag_regex, value) ==
    LET tre == RegexNew(expand_regex(tag_regex))
        v == parse_i32(value)
    IN  IF tre.err # "" THEN Err("Regex")
        ELSE IF v.err # "" THEN Err("IntParse")
        ELSE Ok([k |-> k, tag_regex |-> tre.val, value |-> v.val])

new_less(tag_regex, value) == new_ordering("Less", tag_regex, value)

new_less_equal(tag_regex, value) == new_ordering("LessEqual", tag_regex, value)

new_greater(tag_regex, value) == new_ordering("Greater", tag_regex, value)

new_greater_equal(tag_regex, value) == new_ordering("GreaterEqual", tag_regex, value)

\* the values of the entries whose key the regex matches, in iteration order
RECURSIVE get_values_by_tag_regex(_, _)
get_values_by_tag_regex(xtags, tag_regex) ==
    IF xtags = <<>> THEN <<>>
    ELSE (IF RegexIsMatch(tag_regex, Head(xtags)[1]) THEN <<Head(xtags)[2]>> ELSE <<>>)
         \o get_values_by_tag_regex(Tail(xtags), tag_regex)

\* the closures of the four integer variants
ordering_test(k, tag_value, value) ==
    LET v == parse_i32(tag_value)
    IN  IF v.err # "" THEN FALSE
        ELSE CASE k = "Less" -> v.val < value
               [] k = "LessEqual" -> v.val <= value
               [] k = "Greater" -> v.val > value
               [] k = "GreaterEqual" -> v.val >= value

\* the closure is_match hands to check_values_by_tag_regex: it captures the
\* fields of the variant it was made in
test_call(test, tag_value) ==
    IF test.k = "Equal" THEN RegexIsMatch(test.value_regex, tag_value)
    ELSE ordering_test(test.k, tag_value, test.value)

\* check_values_by_tag_regex as it would be if the loop returned the outcome
\* of the first value it tests, instead of going on after a failed test
check_values_first_only(xtags, tag_regex, test) ==
    LET values == get_values_by_tag_regex(xtags, tag_regex)
        loop[i \in 1..(Len(values) + 1)] ==
            IF i > Len(values) THEN FALSE
            ELSE IF values[i] # None THEN test_call(test, values[i][1])
            ELSE loop[i + 1]
    IN  loop[1]

check_values_by_tag_regex(xtags, tag_regex, test) ==
    LET values == get_values_by_tag_regex(xtags, tag_regex)
        loop[i \in 1..(Len(values) + 1)] ==
            IF i > Len(values) THEN FALSE
            ELSE IF values[i] # None /\ test_call(test, values[i][1]) THEN TRUE
            ELSE loop[i + 1]
    IN  loop[1]

RECURSIVE is_match(_, _)
is_match(self, xtags) ==
    CASE self.k = "And" ->
           LET l == is_match(self.lhs, xtags) IN IF l THEN is_match(self.rhs, xtags) ELSE l
      [] self.k = "Or" ->
           LET l == is_match(self.lhs, xtags) IN IF l THEN l ELSE is_match(self.rhs, xtags)
      [] self.k = "Not" -> ~is_match(self.lhs, xtags)
      [] self.k = "Tag" -> get_values_by_tag_regex(xtags, self.regex) # <<>>
      [] OTHER -> check_values_by_tag_regex(xtags, self.tag_regex, self)

\* the tag patterns of the leaves is_match evaluates, in the order it
\* evaluates them: the right operand of an And or an Or only if the left one
\* has not decided
RECURSIVE is_match_visited(_, _)
is_match_visited(self, xtags) ==
    CASE self.k = "And" ->
           LET l == is_match(self.lhs, xtags)
           IN  IF l THEN is_match_visited(self.lhs, xtags) \o is_match_visited(self.rhs, xtags)
               ELSE is_match_visited(self.lhs, xtags)
      [] self.k = "Or" ->
           LET l == is_match(self.lhs, xtags)
           IN  IF l THEN is_match_visited(self.lhs, xtags)
               ELSE is_match_visited(self.lhs, xtags) \o is_match_visited(self.rhs, xtags)
      [] self.k = "Not" -> is_match_visited(self.lhs, xtags)
      [] self.k = "Tag" -> <<self.regex>>
      [] OTHER -> <<self.tag_regex>>

(***************************************************************************)
(* is_match, one step at a time, for calls that run side by side on one    *)
(* Searcher.  A call holds its own tag map, the frames it still has to     *)
(* work off (`work`, the next one first) and the values its finished       *)
(* subterms returned (`vals`, the latest first).  A frame is a node to     *)
(* evaluate, or an And, Or or Not that waits for its left operand.         *)
(***************************************************************************)
Frame(k, node) == [k |-> k, node |-> node]

Idle(xtags) == [state |-> "idle", map |-> xtags, work |-> <<>>, vals |-> <<>>, out |-> FALSE]

\* the call enters is_match on the Searcher self
enter(call, self) == [call EXCEPT !.state = "running", !.work = <<Frame("eval", self)>>, !.vals = <<>>]

\* leaf_value as it would be if every call read the tag map of the first call
leaf_value_shared(cs, w, node) == is_match(node, cs[1].map)

\* the arms Tag, Equal, Less, LessEqual, Greater, GreaterEqual: one pass over
\* the tag map of the call
leaf_value(cs, w, node) == is_match(node, cs[w].map)

\* the next step of call w
step(cs, w) ==
    LET call == cs[w]
        frame == Head(call.work)
        rest == Tail(call.work)
        node == frame.node
    IN  CASE frame.k = "eval" /\ node.k = "And" ->
               [call EXCEPT !.work = <<Frame("eval", node.lhs), Frame("and", node)>> \o rest]
          [] frame.k = "eval" /\ node.k = "Or" ->
               [call EXCEPT !.work = <<Frame("eval", node.lhs), Frame("or", node)>> \o rest]
          [] frame.k = "eval" /\ node.k = "Not" ->
               [call EXCEPT !.work = <<Frame("eval", node.lhs), Frame("not", node)>> \o rest]
          [] frame.k = "eval" ->
               [call EXCEPT !.work = rest, !.vals = <<leaf_value(cs, w, node)>> \o call.vals]
          [] frame.k = "and" ->
               IF Head(call.vals)
               THEN [call EXCEPT !.work = <<Frame("eval", node.rhs)>> \o rest, !.vals = Tail(call.vals)]
               ELSE [call EXCEPT !.work = rest]
          [] frame.k = "or" ->
               IF Head(call.vals)
               THEN [call EXCEPT !.work = rest]
               ELSE [call EXCEPT !.work = <<Frame("eval", node.rhs)>> \o rest, !.vals = Tail(call.vals)]
          [] frame.k = "not" ->
               [call EXCEPT !.work = rest, !.vals = <<~Head(call.vals)>> \o Tail(call.vals)]

\* the call returns the value of the whole Searcher
leave(call) == [call EXCEPT !.state = "done", !.out = Head(call.vals), !.vals = <<>>]

Sp == <<" ">>

OrderingSymbol(k) ==
    CASE k = "Less" -> <<"<">>
      [] k = "LessEqual" -> <<"<", "=">>
      [] k = "Greater" -> <<">">>
      [] k = "GreaterEqual" -> <<">", "=">>

\* impl fmt::Display for Searcher
RECURSIVE fmt(_)
fmt(self) ==
    CASE self.k = "And" ->
           <<"(">> \o fmt(self.lhs) \o <<")", " ", "A", "N", "D", " ", "(">> \o fmt(self.rhs) \o <<")">>
      [] self.k = "Or" ->
           <<"(">> \o fmt(self.lhs) \o <<")", " ", "O", "R", " ", "(">> \o fmt(self.rhs) \o <<")">>
      [] self.k = "Not" -> <<"N", "O", "T", " ", "(">> \o fmt(self.lhs) \o <<")">>
      [] self.k = "Tag" -> self.regex
      [] self.k = "Equal" -> self.tag_regex \o <<" ", "=", "=", " ">> \o self.value_regex
      [] OTHER -> self.tag_regex \o Sp \o OrderingSymbol(self.k) \o Sp \o i32_to_string(self.value)



(***************************************************************************)
(* The grammar (search.pest).  A Pair is [rule, str, inner].  The shapes   *)
(* are the ones parse_search.rs takes apart:                               *)
(*   binary_expr = unary_expr (binary_op unary_expr)*                      *)
(*   unary_expr  = unary_op unary_expr | comparison                        *)
(*   comparison  = tag comparison_op value | primary                       *)
(*   primary     = "(" binary_expr ")" | "{" path "}" | tag_with_regex     *)
(* Tokens are separated by white space, parentheses and the operator       *)
(* symbols; the patterns of the model carry no regex groups, so that a     *)
(* parenthesis is always a grouping one.                                   *)
(***************************************************************************)
Pair(rule, str, inner) == [rule |-> rule, str |-> str, inner |-> inner]

WordChar(c) == c \notin {" ", "(", ")", "=", "!", "<", ">", "{", "}"}

\* length of the word that starts s
RECURSIVE WordLen(_)
WordLen(s) ==
    IF s = <<>> \/ ~WordChar(Head(s)) THEN 0
    ELSE IF Len(s) >= 2 /\ s[1] = s[2] /\ s[1] \in {"&", "|"} THEN 0
    ELSE 1 + WordLen(Tail(s))

Keyword(w) ==
    CASE w \in {<<"A", "N", "D">>, <<"a", "n", "d">>} -> "and"
      [] w \in {<<"O", "R">>, <<"o", "r">>} -> "or"
      [] w \in {<<"N", "O", "T">>, <<"n", "o", "t">>} -> "not"
      [] OTHER -> "word"

Prefix(s, n) == SubSeq(s, 1, n)

Drop(s, n) == SubSeq(s, n + 1, Len(s))

\* the position of the first `}` of s, 0 if there is none
CloseAt(s) ==
    IF \E i \in 1..Len(s) : s[i] = "}"
    THEN CHOOSE i \in 1..Len(s) : s[i] = "}" /\ \A j \in 1..(i - 1) : s[j] # "}"
    ELSE 0

Symbol(s) ==
    CASE Head(s) = "{" /\ CloseAt(s) > 2 -> Pair("bookmark", Prefix(s, CloseAt(s)), <<>>)
      [] Len(s) >= 2 /\ Prefix(s, 2) = <<"&", "&">> -> Pair("and", Prefix(s, 2), <<>>)
      [] Len(s) >= 2 /\ Prefix(s, 2) = <<"|", "|">> -> Pair("or", Prefix(s, 2), <<>>)
      [] Len(s) >= 2 /\ Prefix(s, 2) = <<"=", "=">> -> Pair("equal", Prefix(s, 2), <<>>)
      [] Len(s) >= 2 /\ Prefix(s, 2) = <<"!", "=">> -> Pair("inequal", Prefix(s, 2), <<>>)
      [] Len(s) >= 2 /\ Prefix(s, 2) = <<"<", "=">> -> Pair("less_equal", Prefix(s, 2), <<>>)
      [] Len(s) >= 2 /\ Prefix(s, 2) = <<">", "=">> -> Pair("greater_equal", Prefix(s, 2), <<>>)
      [] Head(s) = "<" -> Pair("less", Prefix(s, 1), <<>>)
      [] Head(s) = ">" -> Pair("greater", Prefix(s, 1), <<>>)
      [] Head(s) = "!" -> Pair("not", Prefix(s, 1), <<>>)
      [] Head(s) = "(" -> Pair("lparen", Prefix(s, 1), <<>>)
      [] Head(s) = ")" -> Pair("rparen", Prefix(s, 1), <<>>)
      [] OTHER -> Pair("error", Prefix(s, 1), <<>>)

\* the tokens of a term; a character no token starts with gives an "error" token
RECURSIVE Tokens(_)
Tokens(s) ==
    IF s = <<>> THEN <<>>
    ELSE IF Head(s) = " " THEN Tokens(Tail(s))
    ELSE IF WordLen(s) > 0
         THEN <<Pair(Keyword(Prefix(s, WordLen(s))), Prefix(s, WordLen(s)), <<>>)>>
              \o Tokens(Drop(s, WordLen(s)))
    ELSE <<Symbol(s)>> \o Tokens(Drop(s, Len(Symbol(s).str)))

ComparisonOps == {"equal", "inequal", "less", "less_equal", "greater", "greater_equal"}

Parsed(p, rest) == [ok |-> TRUE, pair |-> p, rest |-> rest]

NoParse == [ok |-> FALSE, pair |-> Pair("error", <<>>, <<>>), rest |-> <<>>]

IsRule(toks, i, rules) == Len(toks) >= i /\ toks[i].rule \in rules

RECURSIVE ParseBinaryExpr(_)
RECURSIVE ParseOperands(_, _)
RECURSIVE ParseUnaryExpr(_)

ParsePrimary(toks) ==
    IF IsRule(toks, 1, {"lparen"})
    THEN LET b == ParseBinaryExpr(Tail(toks))
         IN  IF b.ok /\ IsRule(b.rest, 1, {"rparen"}) THEN Parsed(b.pair, Tail(b.rest)) ELSE NoParse
    ELSE IF IsRule(toks, 1, {"bookmark"})
    THEN Parsed(Pair("bookmark", SubSeq(toks[1].str, 2, Len(toks[1].str) - 1), <<>>), Tail(toks))
    ELSE IF IsRule(toks, 1, {"word"})
    THEN Parsed(Pair("tag_with_regex", toks[1].str, <<>>), Tail(toks))
    ELSE NoParse

ParseComparison(toks) ==
    IF IsRule(toks, 1, {"word"}) /\ IsRule(toks, 2, ComparisonOps) /\ IsRule(toks, 3, {"word"})
    THEN Parsed(Pair("comparison", <<>>,
                     <<Pair("tag_with_regex", toks[1].str, <<>>), toks[2],
                       Pair("value", toks[3].str, <<>>)>>),
                Drop(toks, 3))
    ELSE LET p == ParsePrimary(toks)
         IN  IF p.ok THEN Parsed(Pair("comparison", <<>>, <<p.pair>>), p.rest) ELSE NoParse

ParseUnaryExpr(toks) ==
    IF IsRule(toks, 1, {"not"})
    THEN LET u == ParseUnaryExpr(Tail(toks))
         IN  IF u.ok THEN Parsed(Pair("unary_expr", <<>>, <<toks[1], u.pair>>), u.rest) ELSE NoParse
    ELSE LET c == ParseComparison(toks)
         IN  IF c.ok THEN Parsed(Pair("unary_expr", <<>>, <<c.pair>>), c.rest) ELSE NoParse

\* (binary_op ~ unary_expr)*
ParseOperands(inner, toks) ==
    IF IsRule(toks, 1, {"and", "or"})
    THEN LET u == ParseUnaryExpr(Tail(toks))
         IN  IF u.ok THEN ParseOperands(inner \o <<toks[1], u.pair>>, u.rest)
             ELSE Parsed(Pair("binary_expr", <<>>, inner), toks)
    ELSE Parsed(Pair("binary_expr", <<>>, inner), toks)

ParseBinaryExpr(toks) ==
    LET u == ParseUnaryExpr(toks)
    IN  IF u.ok THEN ParseOperands(<<u.pair>>, u.rest) ELSE NoParse

\* SearchParser::parse(Rule::search, term): SOI ~ binary_expr ~ EOI
SearchParser_parse(s) ==
    LET b == ParseBinaryExpr(Tokens(s))
    IN  IF b.ok /\ b.rest = <<>> THEN Ok(b.pair) ELSE Err("Parser")


(***************************************************************************)
(* parse_search.rs: the evaluator that walks the parse tree directly.      *)
(* Its own expand_regex and get_values_by_tag_regex carry the prefix ps_.  *)
(***************************************************************************)
ps_expand_regex(regex) == <<"^">> \o regex \o <<"$">>

ps_get_values_by_tag_regex(xtags, tag_regex) ==
    LET tag_re == RegexNew(ps_expand_regex(tag_regex))
    IN  IF tag_re.err # "" THEN Err("Regex")
        ELSE Ok(get_values_by_tag_regex(xtags, tag_re.val))

eval_tag(p, xtags) ==
    LET matches == ps_get_values_by_tag_regex(xtags, p.str)
    IN  IF matches.err # "" THEN matches ELSE Ok(matches.val # <<>>)

compare_inequality(rule, a, b) ==
    LET pa == parse_i32(a)
        pb == parse_i32(b)
    IN  IF pa.err = "" /\ pb.err = ""
        THEN CASE rule = "less" -> Ok(pa.val < pb.val)
               [] rule = "less_equal" -> Ok(pa.val <= pb.val)
               [] rule = "greater" -> Ok(pa.val > pb.val)
               [] rule = "greater_equal" -> Ok(pa.val >= pb.val)
               [] OTHER -> Err("ParserImplementation")
        ELSE Ok(FALSE)

RECURSIVE eval_expression(_, _)

\* eval_binary_loop as it would be if AND bound tighter than OR: an OR takes
\* the whole rest of the chain as its right operand
RECURSIVE eval_binary_loop_precedence(_, _, _, _)
eval_binary_loop_precedence(pairs, i, lhs, xtags) ==
    IF i > Len(pairs) THEN Ok(lhs)
    ELSE LET operation == pairs[i]
             rhs == eval_expression(pairs[i + 1], xtags)
             rest == eval_binary_loop_precedence(pairs, i + 2, rhs.val, xtags)
         IN  IF rhs.err # "" THEN rhs
             ELSE IF operation.rule = "and"
                  THEN eval_binary_loop_precedence(pairs, i + 2, lhs /\ rhs.val, xtags)
             ELSE IF operation.rule = "or"
                  THEN (IF rest.err # "" THEN rest ELSE Ok(lhs \/ rest.val))
             ELSE Err("ParserImplementation")

\* the while loop of eval_binary_expr, at the operator pairs[i]
RECURSIVE eval_binary_loop(_, _, _, _)
eval_binary_loop(pairs, i, lhs, xtags) ==
    IF i > Len(pairs) THEN Ok(lhs)
    ELSE LET operation == pairs[i]
             rhs == eval_expression(pairs[i + 1], xtags)
         IN  IF rhs.err # "" THEN rhs
             ELSE IF operation.rule = "and" THEN eval_binary_loop(pairs, i + 2, lhs /\ rhs.val, xtags)
             ELSE IF operation.rule = "or" THEN eval_binary_loop(pairs, i + 2, lhs \/ rhs.val, xtags)
             ELSE Err("ParserImplementation")

eval_binary_expr(p, xtags) ==
    LET first == eval_expression(p.inner[1], xtags)
    IN  IF first.err # "" THEN first ELSE eval_binary_loop(p.inner, 2, first.val, xtags)

\* eval_unary_expr as it would be if the `!` of the not arm were left out
eval_unary_expr_no_negation(p, xtags) ==
    IF Len(p.inner) > 1
    THEN IF p.inner[1].rule = "not" THEN eval_expression(p.inner[2], xtags)
         ELSE Err("ParserImplementation")
    ELSE eval_expression(p.inner[1], xtags)

eval_unary_expr(p, xtags) ==
    LET pairs == p.inner
        first == pairs[1]
    IN  IF Len(pairs) > 1
        THEN IF first.rule = "not"
             THEN LET rhs == eval_expression(pairs[2], xtags)
                  IN  IF rhs.err # "" THEN rhs ELSE Ok(~rhs.val)
             ELSE Err("ParserImplementation")
        ELSE eval_expression(first, xtags)

eval_comparison(p, xtags) ==
    LET pairs == p.inner
        lhs == pairs[1]
    IN  IF Len(pairs) > 1
        THEN LET tag_regex == lhs.str
                 operation == pairs[2]
                 search_value == pairs[3].str
                 value_re == RegexNew(ps_expand_regex(search_value))
                 values == ps_get_values_by_tag_regex(xtags, tag_regex)
                 loop[i \in 1..(Len(values.val) + 1)] ==
                     IF i > Len(values.val) THEN Ok(FALSE)
                     ELSE IF values.val[i] = None THEN loop[i + 1]
                     ELSE IF operation.rule = "equal"
                          THEN IF RegexIsMatch(value_re.val, values.val[i][1]) THEN Ok(TRUE)
                               ELSE loop[i + 1]
                          ELSE LET c == compare_inequality(operation.rule, values.val[i][1],
                                                           search_value)
                               IN  IF c.err # "" THEN c
                                   ELSE IF c.val THEN Ok(TRUE)
                                   ELSE loop[i + 1]
             IN  IF value_re.err # "" THEN Err("Regex")
                 ELSE IF values.err # "" THEN values
                 ELSE loop[1]
        ELSE eval_expression(lhs, xtags)

eval_expression(p, xtags) ==
    CASE p.rule = "tag_with_regex" -> eval_tag(p, xtags)
      [] p.rule = "binary_expr" -> eval_binary_expr(p, xtags)
      [] p.rule = "unary_expr" -> eval_unary_expr(p, xtags)
      [] p.rule = "comparison" -> eval_comparison(p, xtags)
      [] OTHER -> Err("ParserImplementation")

\* the tag patterns of the leaves eval_expression evaluates, in the order it
\* evaluates them: every operand of a chain up to the first that fails
RECURSIVE eval_visited(_, _)

RECURSIVE eval_binary_visited(_, _, _)
eval_binary_visited(pairs, i, xtags) ==
    IF i > Len(pairs) THEN <<>>
    ELSE IF eval_expression(pairs[i], xtags).err # "" THEN eval_visited(pairs[i], xtags)
    ELSE eval_visited(pairs[i], xtags) \o eval_binary_visited(pairs, i + 2, xtags)

eval_visited(p, xtags) ==
    CASE p.rule = "tag_with_regex" -> <<p.str>>
      [] p.rule = "binary_expr" -> eval_binary_visited(p.inner, 1, xtags)
      [] p.rule = "unary_expr" ->
           IF Len(p.inner) > 1
           THEN (IF p.inner[1].rule = "not" THEN eval_visited(p.inner[2], xtags) ELSE <<>>)
           ELSE eval_visited(p.inner[1], xtags)
      [] p.rule = "comparison" ->
           IF Len(p.inner) > 1 THEN <<p.inner[1].str>> ELSE eval_visited(p.inner[1], xtags)
      [] OTHER -> <<>>

\* parse_search as its tests call it: find_in_string unwraps the outcome, and
\* the unwrap of an error is a panic
parse_search_unwrap(s, xtags) ==
    LET p == SearchParser_parse(s)
    IN  IF p.err # "" THEN Err("panic") ELSE eval_expression(p.val, xtags)

parse_search(s, xtags) ==
    LET p == SearchParser_parse(s)
    IN  IF p.err # "" THEN Err("Parser") ELSE eval_expression(p.val, xtags)

(***************************************************************************)
(* compile_search: the same walk over the parse tree, building a Searcher  *)
(* with the constructors of searcher.rs instead of evaluating.             *)
(***************************************************************************)
RECURSIVE compile_expression(_)
RECURSIVE compile_search(_)
RECURSIVE compile_search_spliced(_)

(***************************************************************************)
(* bookmarks.rs.  links holds the symbolic links of the file system: a     *)
(* path with a link has a target, which is text or is not valid unicode.   *)
(***************************************************************************)
Link(body) == [utf8 |-> TRUE, text |-> body]

NotUnicode == [utf8 |-> FALSE, text |-> <<>>]

\* fs::read_link
read_link(path) == IF path \in DOMAIN links THEN Ok(links[path]) ELSE Err("File")

get_bookmark(path) ==
    LET link == read_link(path)
    IN  IF link.err # "" THEN Err("File")
        ELSE IF ~link.val.utf8 THEN Err("Bookmark")
        ELSE compile_search(link.val.text)

RECURSIVE compile_binary_loop(_, _, _)
compile_binary_loop(pairs, i, lhs) ==
    IF i > Len(pairs) THEN Ok(lhs)
    ELSE LET operation == pairs[i]
             rhs == compile_expression(pairs[i + 1])
         IN  IF rhs.err # "" THEN rhs
             ELSE IF operation.rule = "and" THEN compile_binary_loop(pairs, i + 2, new_and(lhs, rhs.val))
             ELSE IF operation.rule = "or" THEN compile_binary_loop(pairs, i + 2, new_or(lhs, rhs.val))
             ELSE Err("ParserImplementation")

compile_binary_expr(p) ==
    LET first == compile_expression(p.inner[1])
    IN  IF first.err # "" THEN first ELSE compile_binary_loop(p.inner, 2, first.val)

compile_unary_expr(p) ==
    LET pairs == p.inner
        first == pairs[1]
    IN  IF Len(pairs) > 1
        THEN IF first.rule = "not"
             THEN LET rhs == compile_expression(pairs[2])
                  IN  IF rhs.err # "" THEN rhs ELSE Ok(new_not(rhs.val))
             ELSE Err("ParserImplementation")
        ELSE compile_expression(first)

compile_comparison(p) ==
    LET pairs == p.inner
        lhs == pairs[1]
    IN  IF Len(pairs) > 1
        THEN LET tag_regex == lhs.str
                 operation == pairs[2].rule
                 value == pairs[3].str
             IN  CASE operation = "equal" -> new_equal(tag_regex, value)
                   [] operation = "inequal" -> new_inequal(tag_regex, value)
                   [] operation = "less" -> new_less(tag_regex, value)
                   [] operation = "less_equal" -> new_less_equal(tag_regex, value)
                   [] operation = "greater" -> new_greater(tag_regex, value)
                   [] operation = "greater_equal" -> new_greater_equal(tag_regex, value)
                   [] OTHER -> Err("ParserImplementation")
        ELSE compile_expression(lhs)

compile_expression(p) ==
    CASE p.rule = "tag_with_regex" -> new_tag(p.str)
      [] p.rule = "bookmark" -> get_bookmark(p.str)
      [] p.rule = "binary_expr" -> compile_binary_expr(p)
      [] p.rule = "unary_expr" -> compile_unary_expr(p)
      [] p.rule = "comparison" -> compile_comparison(p)
      [] OTHER -> Err("ParserImplementation")

\* s with every reference `{path}` to a readable bookmark replaced by the
\* text of the bookmark between `open` and `close`
RECURSIVE Splice(_, _, _)
Splice(s, open, close) ==
    IF s = <<>> THEN <<>>
    ELSE IF /\ Head(s) = "{" /\ CloseAt(s) > 2
            /\ read_link(SubSeq(s, 2, CloseAt(s) - 1)).err = ""
            /\ read_link(SubSeq(s, 2, CloseAt(s) - 1)).val.utf8
         THEN open \o read_link(SubSeq(s, 2, CloseAt(s) - 1)).val.text \o close
              \o Splice(Drop(s, CloseAt(s)), open, close)
    ELSE <<Head(s)>> \o Splice(Tail(s), open, close)

\* compile_search as it would be if the text of a bookmark were put in the
\* place of its reference before the term is parsed
compile_search_spliced(s) ==
    LET p == SearchParser_parse(Splice(s, <<>>, <<>>))
    IN  IF p.err # "" THEN Err("Parser") ELSE compile_expression(p.val)

compile_search(s) ==
    LET p == SearchParser_parse(s)
    IN  IF p.err # "" THEN Err("Parser") ELSE compile_expression(p.val)

(***************************************************************************)
(* lib.rs and parse_tags.rs: the tag list codec.                           *)
(***************************************************************************)
\* map_to_csl as it would be if the entries were joined with nothing
RECURSIVE map_to_csl_unseparated(_)
map_to_csl_unseparated(set) ==
    IF set = <<>> THEN <<>>
    ELSE (IF Head(set)[2] = None THEN Head(set)[1] ELSE Head(set)[1] \o <<"=">> \o Head(set)[2][1])
         \o map_to_csl_unseparated(Tail(set))

\* map_to_csl: `tag` or `tag=value` per entry, joined with ","
RECURSIVE map_to_csl(_)
map_to_csl(set) ==
    IF set = <<>> THEN <<>>
    ELSE LET tag == Head(set)[1]
             value == Head(set)[2]
             item == IF value = None THEN tag ELSE tag \o <<"=">> \o value[1]
         IN  IF Tail(set) = <<>> THEN item ELSE item \o <<",">> \o map_to_csl(Tail(set))

RECURSIVE TrimStart(_)
TrimStart(s) == IF s # <<>> /\ Head(s) = " " THEN TrimStart(Tail(s)) ELSE s

RECURSIVE TrimEnd(_)
TrimEnd(s) == IF s # <<>> /\ s[Len(s)] = " " THEN TrimEnd(Prefix(s, Len(s) - 1)) ELSE s

Trim(s) == TrimEnd(TrimStart(s))

\* a tag or value token: one or more characters, none of them white space
IsToken(s) == s # <<>> /\ \A i \in 1..Len(s) : s[i] # " "

\* tag_with_value = tag ("=" value)?, white space around the tokens skipped
TagWithValue(s) ==
    LET parts == SplitOn(s, "=", <<>>)
    IN  IF Len(parts) > 2 \/ \E i \in 1..Len(parts) : ~IsToken(Trim(parts[i]))
        THEN Pair("error", <<>>, <<>>)
        ELSE Pair("tag_with_value", <<>>,
                  [i \in 1..Len(parts) |->
                      Pair(IF i = 1 THEN "tag" ELSE "value", Trim(parts[i]), <<>>)])

\* SearchParser::parse(Rule::comma_separated_tags_with_values, string):
\* SOI ~ (tag_with_value ~ ("," ~ tag_with_value)*)? ~ EOI
TagsParser_parse(s) ==
    LET items == SplitOn(s, ",", <<>>)
        pairs == [i \in 1..Len(items) |-> TagWithValue(items[i])]
    IN  IF Trim(s) = <<>> THEN Ok(<<Pair("EOI", <<>>, <<>>)>>)
        ELSE IF \E i \in 1..Len(pairs) : pairs[i].rule = "error" THEN Err("Parser")
        ELSE Ok(Append(pairs, Pair("EOI", <<>>, <<>>)))

\* HashMap::insert: the value of an existing key is replaced
HashMap_insert(container, key, value) ==
    IF \E i \in 1..Len(container) : container[i][1] = key
    THEN [i \in 1..Len(container) |->
             IF container[i][1] = key THEN <<key, value>> ELSE container[i]]
    ELSE Append(container, <<key, value>>)

eval_tag_with_value(p, container) ==
    LET pairs == p.inner
        tag == pairs[1].str
        value == IF Len(pairs) > 1 THEN Some(pairs[2].str) ELSE None
    IN  HashMap_insert(container, tag, value)

RECURSIVE eval_tags(_, _)
eval_tags(pairs, container) ==
    IF pairs = <<>> THEN Ok(container)
    ELSE LET thing == Head(pairs)
         IN  IF thing.rule = "tag_with_value"
             THEN eval_tags(Tail(pairs), eval_tag_with_value(thing, container))
             ELSE IF thing.rule = "EOI" THEN eval_tags(Tail(pairs), container)
             ELSE Err("ParserImplementation")

parse_tags(string) ==
    LET pairs == TagsParser_parse(string)
    IN  IF pairs.err # "" THEN Err("Parser") ELSE eval_tags(pairs.val, <<>>)

RECURSIVE Concat(_)
Concat(ss) == IF ss = <<>> THEN <<>> ELSE Head(ss) \o Concat(Tail(ss))

(***************************************************************************)
(* regex crate, matching with capture groups, as replace_all needs it.  A  *)
(* group `(`...`)` lies inside one branch and is not repeated.  Positions  *)
(* count from 1; a capture is <<start, end>>, <<0, 0>> when the group took *)
(* no part in the match.  The outcomes of a branch are listed in the order *)
(* the backtracking matcher prefers them: a `+` takes as much as it can.   *)
(***************************************************************************)
Opens(re) == Cardinality({j \in 1..Len(re) : re[j] = "("})

NoCaptures(n) == [k \in 1..n |-> <<0, 0>>]

RECURSIVE MatchFrom(_, _, _, _, _)
RECURSIVE PlusFrom(_, _, _, _, _)
MatchFrom(b, j, s, i, caps) ==
    IF j > Len(b) THEN <<[end |-> i, caps |-> caps]>>
    ELSE IF b[j] = "(" THEN MatchFrom(b, j + 1, s, i, Append(caps, <<i, i>>))
    ELSE IF b[j] = ")" THEN MatchFrom(b, j + 1, s, i, [caps EXCEPT ![Len(caps)] = <<@[1], i>>])
    ELSE IF b[j] = "^" THEN (IF i = 1 THEN MatchFrom(b, j + 1, s, i, caps) ELSE <<>>)
    ELSE IF b[j] = "$" THEN (IF i = Len(s) + 1 THEN MatchFrom(b, j + 1, s, i, caps) ELSE <<>>)
    ELSE IF j < Len(b) /\ b[j + 1] = "+" THEN PlusFrom(b, j, s, i, caps)
    ELSE IF i <= Len(s) /\ (b[j] = "." \/ s[i] = b[j]) THEN MatchFrom(b, j + 1, s, i + 1, caps)
    ELSE <<>>

\* the item b[j] once at i, then again, or else the rest of the branch
PlusFrom(b, j, s, i, caps) ==
    IF i <= Len(s) /\ (b[j] = "." \/ s[i] = b[j])
    THEN PlusFrom(b, j, s, i + 1, caps) \o MatchFrom(b, j + 2, s, i + 1, caps)
    ELSE <<>>

\* the groups opened in the branches before branch n
OpensBefore(re, n) == Opens(Concat(SubSeq(Branches(re), 1, n - 1)))

\* the match that starts at i: the first branch that matches there wins
MatchAt(re, s, i) ==
    LET bs == Branches(re)
        hit == {n \in 1..Len(bs) : MatchFrom(bs[n], 1, s, i, NoCaptures(OpensBefore(re, n))) # <<>>}
    IN  IF hit = {} THEN <<>>
        ELSE LET n == CHOOSE m \in hit : \A k \in hit : m <= k
                 r == MatchFrom(bs[n], 1, s, i, NoCaptures(OpensBefore(re, n)))[1]
             IN  <<[start |-> i, end |-> r.end, caps |-> r.caps]>>

\* Regex::find_at: the leftmost match that starts at `at` or later
RECURSIVE RegexFindAt(_, _, _)
RegexFindAt(re, s, at) ==
    IF at > Len(s) + 1 THEN <<>>
    ELSE IF MatchAt(re, s, at) # <<>> THEN MatchAt(re, s, at)
    ELSE RegexFindAt(re, s, at + 1)

IsNameChar(c) ==
    \/ IsDigit(c)
    \/ c \in {"_", "a", "b", "c", "d", "e", "f", "g", "h", "i", "j", "k", "l", "m",
              "n", "o", "p", "q", "r", "s", "t", "u", "v", "w", "x", "y", "z"}

\* the longest group name that starts rep
RECURSIVE NameLen(_)
NameLen(rep) == IF rep = <<>> \/ ~IsNameChar(Head(rep)) THEN 0 ELSE 1 + NameLen(Tail(rep))

\* the text of group `name` in the match m of s: a number names the group of
\* that index, 0 the whole match; the patterns carry no named groups, and a
\* group that does not exist or took no part gives the empty text
GroupText(name, m, s) ==
    IF \E k \in 1..Len(name) : ~IsDigit(name[k]) THEN <<>>
    ELSE LET n == parse_i32(name)
         IN  IF n.err # "" THEN <<>>
             ELSE IF n.val = 0 THEN SubSeq(s, m.start, m.end - 1)
             ELSE IF n.val > Len(m.caps) \/ m.caps[n.val] = <<0, 0>> THEN <<>>
             ELSE SubSeq(s, m.caps[n.val][1], m.caps[n.val][2] - 1)

\* Captures::expand: `$name` with the longest name, `$$` for a dollar
RECURSIVE CapturesExpand(_, _, _)
CapturesExpand(rep, m, s) ==
    IF rep = <<>> THEN <<>>
    ELSE IF Head(rep) # "$" THEN <<Head(rep)>> \o CapturesExpand(Tail(rep), m, s)
    ELSE IF Len(rep) >= 2 /\ rep[2] = "$" THEN <<"$">> \o CapturesExpand(Drop(rep, 2), m, s)
    ELSE IF NameLen(Tail(rep)) = 0 THEN <<"$">> \o CapturesExpand(Tail(rep), m, s)
    ELSE GroupText(SubSeq(rep, 2, 1 + NameLen(Tail(rep))), m, s)
         \o CapturesExpand(Drop(rep, 1 + NameLen(Tail(rep))), m, s)

\* Regex::replace_all from the position `at`: `copied` is the end of the text
\* already handled, `last` the end of the previous match (0 for none).  An
\* empty match right at the end of the previous match is skipped.
RECURSIVE ReplaceFrom(_, _, _, _, _, _)
ReplaceFrom(re, s, rep, at, copied, last) ==
    LET found == RegexFindAt(re, s, at)
        m == found[1]
    IN  IF found = <<>> THEN SubSeq(s, copied, Len(s))
        ELSE IF m.start = m.end /\ m.end = last THEN ReplaceFrom(re, s, rep, m.end + 1, copied, last)
        ELSE SubSeq(s, copied, m.start - 1) \o CapturesExpand(rep, m, s)
             \o ReplaceFrom(re, s, rep, IF m.start = m.end THEN m.end + 1 ELSE m.end, m.end, m.end)

Regex_replace_all(re, s, rep) == ReplaceFrom(re, s, rep, 1, 1, 0)


(***************************************************************************)
(* lib.rs: rename.                                                         *)
(***************************************************************************)
\* the for loop of rename over the entries of tags, in iteration order
RECURSIVE rename_loop(_, _, _, _)
rename_loop(xtags, re, rep, acc) ==
    IF xtags = <<>> THEN acc
    ELSE LET key == Head(xtags)[1]
             value == Head(xtags)[2]
             new_key == Regex_replace_all(re, key, rep)
         IN  rename_loop(Tail(xtags), re, rep, HashMap_insert(acc, new_key, value))

rename(find, rep, xtags) ==
    LET re == RegexNew(expand_regex(find))
    IN  IF re.err # "" THEN Err("Regex") ELSE Ok(rename_loop(xtags, re.val, rep, <<>>))

(***************************************************************************)
(* Inputs of the model.                                                    *)
(***************************************************************************)
Letters == <<"a", "b", "c", "d", "e", "f">>

Range(f) == {f[i] : i \in DOMAIN f}

\* the ways a HashMap may iterate over the entries of a set
Orders(S) == {q \in [1..Cardinality(S) -> S] : Range(q) = S}

AndWord == <<" ", "A", "N", "D", " ">>

OrWord == <<" ", "O", "R", " ">>

NotWord == <<"N", "O", "T", " ">>

\* e1 op1 e2 op2 ... en : operand i is Letters[i] or its negation
Chain(n, negs, ops) ==
    Concat([i \in 1..((2 * n) - 1) |->
               IF i % 2 = 1
               THEN (IF negs[(i + 1) \div 2] THEN NotWord ELSE <<>>) \o <<Letters[(i + 1) \div 2]>>
               ELSE ops[i \div 2]])

Chains ==
    UNION {{Chain(n, negs, ops) : negs \in [1..n -> BOOLEAN], ops \in [1..(n - 1) -> {AndWord, OrWord}]} :
           n \in 1..MaxOperands}

Paren(s) == <<"(">> \o s \o <<")">>

Grouped ==
    {NotWord \o Paren(<<"a">> \o o \o <<"b">>) : o \in {AndWord, OrWord}}
    \cup {<<"a">> \o o1 \o Paren(<<"b">> \o o2 \o <<"c">>) : o1, o2 \in {AndWord, OrWord}}
    \cup {Paren(<<"a">> \o o1 \o <<"b">>) \o o2 \o <<"c">> : o1, o2 \in {AndWord, OrWord}}

\* presence-only maps over the first MaxOperands letters, iterating forwards or backwards
Reverse(q) == [i \in 1..Len(q) |-> q[(Len(q) + 1) - i]]

RECURSIVE PresenceMap(_, _)
PresenceMap(i, S) ==
    IF i > MaxOperands THEN <<>>
    ELSE (IF Letters[i] \in S THEN <<<< <<Letters[i]>>, None >>>> ELSE <<>>) \o PresenceMap(i + 1, S)

PresenceMaps ==
    UNION {{PresenceMap(1, S), Reverse(PresenceMap(1, S))} : S \in SUBSET Range(SubSeq(Letters, 1, MaxOperands))}

\* patterns, keys, values and bounds of the comparison terms
TagPatterns == {<<"a">>, <<"a", "|", "b">>, <<".">>, <<"^", "a", "$">>}

ValuePatterns == {<<"1">>, <<".">>, <<"1", "|", "x">>}

BoundTexts == {<<"2">>, <<"x">>}

TagKeys == {<<"a">>, <<"a", "b">>, <<"c">>}

TagValues == {None, Some(<<"1">>), Some(<<"3">>), Some(<<"x">>)}

ComparisonTerms ==
    TagPatterns
    \cup {p \o o \o v : p \in TagPatterns, o \in {<<" ", "=", "=", " ">>, <<" ", "!", "=", " ">>},
                        v \in ValuePatterns}
    \cup {p \o o \o v : p \in TagPatterns, o \in {<<" ", "<", " ">>, <<"<", "=">>, <<">">>, <<" ", ">", "=", " ">>},
                        v \in BoundTexts}

\* the maps of at most MaxEntries entries, in every iteration order
ValuedMaps ==
    UNION {UNION {{[i \in 1..Len(q) |-> <<q[i], vs[i]>>] : vs \in [1..Len(q) -> TagValues]} :
                  q \in Orders(K)} :
           K \in {S \in SUBSET TagKeys : Cardinality(S) <= MaxEntries}}

\* the terms that are printed: every variant, alone, negated and combined
PrintAtoms ==
    {<<"a">>, <<"^", "b", "$">>, <<"a", "|", "b">>, <<"^", "a">>, <<"b", "$">>,
     <<"a", "=", "=", "1">>, <<"a", " ", "!", "=", " ", "^", "1", "$">>,
     <<"a", " ", "<", " ", "0", "5">>, <<"b", ">", "=", "-", "1">>, <<"a", "<", "=", "2">>,
     <<"b", " ", ">", " ", "+", "7">>, <<"a", ">", "x">>}

LowerAnd == <<" ", "a", "n", "d", " ">>

LowerOr == <<" ", "o", "r", " ">>

PrintTerms ==
    PrintAtoms \cup Chains \cup Grouped
    \cup {NotWord \o x : x \in PrintAtoms}
    \cup {<<"!">> \o Paren(x) : x \in PrintAtoms}
    \cup {x \o o \o y : x, y \in PrintAtoms, o \in {AndWord, <<"|", "|">>}}
    \cup {<<"a">> \o LowerOr \o <<"b">> \o LowerAnd \o <<"c">>,
          Paren(<<"a">> \o LowerOr \o <<"b">>) \o LowerAnd \o <<"c">>,
          <<"a">> \o LowerOr \o Paren(<<"b">> \o LowerAnd \o <<"c">>)}

\* the maps that are written to a file and read back
CodecKeys == {<<"a">>, <<"b">>, <<>>, <<" ", "a">>, <<"a", ",", "b">>}

CodecValues == {None, Some(<<"1">>), Some(<<>>), Some(<<"1", " ">>)}

CodecMaps ==
    UNION {UNION {{[i \in 1..Len(q) |-> <<q[i], vs[i]>>] : vs \in [1..Len(q) -> CodecValues]} :
                  q \in Orders(K)} :
           K \in {S \in SUBSET CodecKeys : Cardinality(S) <= MaxEntries}}

\* the patterns, templates and maps of rename
FindPatterns ==
    {<<"a">>, <<"f", "(", ".", ")", "o", "m">>, <<"a", "|", "b">>, <<".">>, <<"(", ".", ")", "(", ".", ")">>,
     <<".", "+">>, <<"^", "a", "$">>, <<"(">>}

Templates == {<<"t", "o", "$", "1">>, <<"b">>, <<"$", "2", "$", "1">>, <<"$", "1", "x">>}

RenameKeys == {<<"a">>, <<"b">>, <<"a", "b">>, <<"f", "r", "o", "m">>}

RenameValues == {None, Some(<<"1">>), Some(<<"v", "a", "l", "u", "e">>)}

RenameMaps ==
    UNION {UNION {{[i \in 1..Len(q) |-> <<q[i], vs[i]>>] : vs \in [1..Len(q) -> RenameValues]} :
                  q \in Orders(K)} :
           K \in {S \in SUBSET RenameKeys : Cardinality(S) <= MaxEntries}}

\* terms no production of the grammar matches, and a few it does match
InvalidTerms ==
    {<<"a", " ", "b", " ", "c">>, <<"a">> \o AndWord, <<"A", "N", "D", " ", "a">>, <<"(", "a">>, <<"a", ")">>,
     <<>>, <<" ">>, <<"a", " ", "=", "=">>, <<"=", "=", " ", "1">>, <<"a">> \o AndWord \o <<"A", "N", "D", " ", "b">>,
     <<"(", ")">>, <<"a", " ", "<">>, <<"N", "O", "T">>, <<"a", " ", "=", " ", "1">>}

ValidTerms ==
    {<<"a">>, <<"a">> \o AndWord \o <<"b">>, NotWord \o <<"a">>, <<"a", " ", "=", "=", " ", "1">>}

\* bookmarks: the texts they stand for, the file systems and the terms
BookmarkBodies ==
    {<<"a">> \o LowerOr \o <<"b">>, <<"a">> \o AndWord \o <<"b">>, <<"a">> \o OrWord \o <<"b">>,
     <<"a">>, NotWord \o <<"a">>, <<"a", " ", "b">>, <<"b", "|", "+">>}

FileSystems ==
    {[path \in {<<"n">>} |-> Link(body)] : body \in BookmarkBodies}
    \cup {[path \in {<<"n">>} |-> NotUnicode], [path \in {<<"m">>} |-> Link(<<"a">>)]}
    \cup {[path \in {<<"n">>, <<"m">>} |->
              IF path = <<"n">> THEN Link(<<"{", "m", "}">> \o LowerOr \o <<"b">>) ELSE Link(<<"a">>)]}

BookmarkTerms ==
    {<<"{", "n", "}">> \o LowerAnd \o <<"c">>, <<"c">> \o LowerAnd \o <<"{", "n", "}">>,
     <<"c">> \o LowerOr \o <<"{", "n", "}">>, <<"{", "n", "}">> \o OrWord \o <<"c">>,
     NotWord \o <<"{", "n", "}">>, <<"{", "n", "}">>}

\* two operands, the right one with and without a pattern that is no regex
ShortTerms ==
    {l \o o \o r : l \in {<<"a">>, NotWord \o <<"a">>},
                   o \in {AndWord, OrWord},
                   r \in {<<"b">>, <<"b", "|", "+">>, <<"b", " ", "<", " ", "2">>, Paren(<<"b">> \o OrWord \o <<"c">>)}}

\* the Searchers that are shared and the tag maps of the calls
SharedTerms ==
    {<<"a">> \o AndWord \o <<"b">>, <<"a">> \o OrWord \o NotWord \o <<"b">>,
     NotWord \o Paren(<<"a", " ", "<", " ", "2">> \o OrWord \o <<"b">>) \o AndWord \o <<"c">>,
     <<"a", "=", "=", "1">>}

SharedMaps ==
    {<<>>, << <<<<"a">>, Some(<<"1">>)>> >>, << <<<<"b">>, None>>, <<<<"a">>, Some(<<"3">>)>> >>,
     << <<<<"a">>, Some(<<"x">>)>>, <<<<"c">>, None>> >>}

\* every pattern text of at most MaxPattern characters over anchors, a letter and `|`
PatternTexts == UNION {[1..n -> {"^", "$", "a", "|"}] : n \in 0..MaxPattern}

\* numerals at and beyond the ends of the 32-bit range
RangeBounds ==
    {<<"0">>, <<"1">>, <<"2", "1", "4", "7", "4", "8", "3", "6", "4", "7">>, <<"2", "1", "4", "7", "4", "8", "3", "6", "4", "8">>, <<"-", "2", "1", "4", "7", "4", "8", "3", "6", "4", "8">>, <<"-", "2", "1", "4", "7", "4", "8", "3", "6", "4", "9">>}

RangeValues ==
    {<<"0">>, <<"2", "1", "4", "7", "4", "8", "3", "6", "4", "7">>, <<"2", "1", "4", "7", "4", "8", "3", "6", "4", "8">>, <<"-", "2", "1", "4", "7", "4", "8", "3", "6", "4", "8">>, <<"-", "2", "1", "4", "7", "4", "8", "3", "6", "4", "9">>, <<"4", "2", "9", "4", "9", "6", "7", "2", "9", "6">>, <<"x">>}

RangeTerms ==
    {<<"a">> \o o \o b : o \in {<<" ", "<", " ">>, <<"<", "=">>, <<">">>, <<" ", ">", "=", " ">>}, b \in RangeBounds}

RangeMaps ==
    {<< <<<<"a">>, Some(v)>> >> : v \in RangeValues}
    \cup {<< <<<<"a">>, Some(<<"4", "2", "9", "4", "9", "6", "7", "2", "9", "6">>)>>, <<<<"b">>, Some(<<"0">>)>> >>}

\* nothing has been computed yet
Fresh ==
    /\ pair = Pair("none", <<>>, <<>>)
    /\ searcher = Err("none")
    /\ result = Err("none")
    /\ text = <<>>
    /\ xattr = None
    /\ decoded = Err("none")
    /\ op = "init"
    /\ renamed = Err("none")
    /\ visited = <<>>

InitWith(Terms, Maps) ==
    /\ tags \in Maps
    /\ term \in Terms
    /\ from = <<>>
    /\ to = <<>>
    /\ links = <<>>
    /\ calls = <<>>
    /\ Fresh

(***************************************************************************)
(* Operations.                                                             *)
(***************************************************************************)
\* the parse tree of the term, as the operations on search terms build it
parse_tree(s) ==
    LET p == SearchParser_parse(s)
    IN  IF p.err = "" THEN p.val ELSE Pair("error", <<>>, <<>>)

\* parse_search(term, &tags)
ParseSearch ==
    /\ op' = "parse_search"
    /\ pair' = parse_tree(term)
    /\ result' = parse_search(term, tags)
    /\ UNCHANGED <<tags, term, searcher, text, xattr, decoded, renameVars, links, visited, calls>>

\* parse_search(term, &tags), with the leaves it evaluates written down
ParseSearchTraced ==
    /\ op' = "parse_search"
    /\ pair' = parse_tree(term)
    /\ result' = parse_search(term, tags)
    /\ visited' = eval_visited(parse_tree(term), tags)
    /\ UNCHANGED <<tags, term, searcher, text, xattr, decoded, renameVars, links, calls>>

\* compile_search(term)
CompileSearch ==
    /\ op' = "compile_search"
    /\ pair' = parse_tree(term)
    /\ searcher' = compile_search(term)
    /\ UNCHANGED <<tags, term, result, text, xattr, decoded, renameVars, links, visited, calls>>

\* searcher.is_match(&tags)
IsMatch ==
    /\ searcher.err = ""
    /\ op' = "is_match"
    /\ result' = Ok(is_match(searcher.val, tags))
    /\ UNCHANGED <<tags, term, pair, searcher, text, xattr, decoded, renameVars, links, visited, calls>>

\* searcher.is_match(&tags), with the leaves it evaluates written down
IsMatchTraced ==
    /\ searcher.err = ""
    /\ op' = "is_match"
    /\ result' = Ok(is_match(searcher.val, tags))
    /\ visited' = is_match_visited(searcher.val, tags)
    /\ UNCHANGED <<tags, term, pair, searcher, text, xattr, decoded, renameVars, links, calls>>

\* format!("{}", searcher)
Display ==
    /\ searcher.err = ""
    /\ op' = "fmt"
    /\ text' = fmt(searcher.val)
    /\ UNCHANGED <<tags, term, pair, searcher, result, xattr, decoded, renameVars, links, visited, calls>>

\* the printed text becomes the next term (test_stability)
Feed ==
    /\ op = "fmt"
    /\ term # text
    /\ op' = "feed"
    /\ term' = text
    /\ UNCHANGED <<tags, pair, searcher, result, text, xattr, decoded, renameVars, links, visited, calls>>

\* set_tags(path, &tags): the attribute user.xtag of the file gets the list
SetTags ==
    /\ op' = "set_tags"
    /\ xattr' = Some(map_to_csl(tags))
    /\ UNCHANGED <<tags, term, pair, searcher, result, text, decoded, renameVars, links, visited, calls>>

\* get_tags(path): a file without the attribute has the tags of the empty
\* list; the map built iterates in an order of its own
GetTags ==
    LET string == IF xattr = None THEN <<>> ELSE xattr[1]
    IN  /\ op' = "get_tags"
        /\ \/ /\ parse_tags(string).err # ""
              /\ decoded' = parse_tags(string)
           \/ /\ parse_tags(string).err = ""
              /\ \E q \in Orders(Range(parse_tags(string).val)) : decoded' = Ok(q)
        /\ UNCHANGED <<tags, term, pair, searcher, result, text, xattr, renameVars, links, visited, calls>>

\* rename(from, to, tags): the map built iterates in an order of its own
Rename ==
    /\ op' = "rename"
    /\ \/ /\ rename(from, to, tags).err # ""
          /\ renamed' = rename(from, to, tags)
       \/ /\ rename(from, to, tags).err = ""
          /\ \E q \in Orders(Range(rename(from, to, tags).val)) : renamed' = Ok(q)
    /\ UNCHANGED <<tags, term, pair, searcher, result, text, xattr, decoded, from, to, links, visited, calls>>

\* call w starts searcher.is_match(&map) on the shared Searcher
Call(w) ==
    /\ searcher.err = ""
    /\ calls[w].state = "idle"
    /\ op' = "call"
    /\ calls' = [calls EXCEPT ![w] = enter(calls[w], searcher.val)]
    /\ UNCHANGED <<tags, term, pair, searcher, result, text, xattr, decoded, renameVars, links, visited>>

\* call w takes its next step
StepCall(w) ==
    /\ calls[w].state = "running"
    /\ calls[w].work # <<>>
    /\ op' = "step"
    /\ calls' = [calls EXCEPT ![w] = step(calls, w)]
    /\ UNCHANGED <<tags, term, pair, searcher, result, text, xattr, decoded, renameVars, links, visited>>

\* call w returns
Return(w) ==
    /\ calls[w].state = "running"
    /\ calls[w].work = <<>>
    /\ op' = "return"
    /\ calls' = [calls EXCEPT ![w] = leave(calls[w])]
    /\ UNCHANGED <<tags, term, pair, searcher, result, text, xattr, decoded, renameVars, links, visited>>

\* searcher::expand_regex(term), the rule of searcher.rs and of rename
ExpandRegex ==
    /\ op' = "expand_regex"
    /\ text' = expand_regex(term)
    /\ UNCHANGED <<tags, term, pair, searcher, result, xattr, decoded, renameVars, links, visited, calls>>

\* expand_regex(term) of parse_search.rs
PsExpandRegex ==
    /\ op' = "ps_expand_regex"
    /\ text' = ps_expand_regex(term)
    /\ UNCHANGED <<tags, term, pair, searcher, result, xattr, decoded, renameVars, links, visited, calls>>

\* evaluation of a term on a tag map, by either evaluator
Next == ParseSearch \/ CompileSearch \/ IsMatch

\* printing and recompiling
NextPrint == CompileSearch \/ Display \/ Feed

\* writing and reading the tags of a file
NextCodec == SetTags \/ GetTags

\* AND, OR, NOT and grouping over presence-only maps
Init == InitWith(Chains \cup Grouped, PresenceMaps)

Spec == Init /\ [][Next]_vars

\* one tag pattern or one comparison over maps with values
InitCmp == InitWith(ComparisonTerms, ValuedMaps)

SpecCmp == InitCmp /\ [][Next]_vars

InitPrint == InitWith(PrintTerms, {<<>>})

SpecPrint == InitPrint /\ [][NextPrint]_vars

InitCodec == InitWith({<<"a">>}, CodecMaps)

SpecCodec == InitCodec /\ [][NextCodec]_vars

\* terms the grammar rejects, next to terms it accepts
InitSyntax == InitWith(InvalidTerms \cup ValidTerms, PresenceMaps)

SpecSyntax == InitSyntax /\ [][Next]_vars

\* terms with a bookmark reference, over file systems with and without the link
InitBookmark ==
    /\ tags \in PresenceMaps
    /\ term \in BookmarkTerms
    /\ from = <<>>
    /\ to = <<>>
    /\ links \in FileSystems
    /\ calls = <<>>
    /\ Fresh

SpecBookmark == InitBookmark /\ [][Next]_vars

\* terms in which the left operand may decide, with the order of evaluation
NextShort == ParseSearchTraced \/ CompileSearch \/ IsMatchTraced

InitShort == InitWith(ShortTerms, PresenceMaps)

SpecShort == InitShort /\ [][NextShort]_vars

\* calls of is_match side by side on one compiled Searcher
NextShared ==
    \/ CompileSearch
    \/ \E w \in 1..NumCalls : Call(w)
    \/ \E w \in 1..NumCalls : StepCall(w)
    \/ \E w \in 1..NumCalls : Return(w)

InitShared ==
    /\ tags = <<>>
    /\ term \in SharedTerms
    /\ from = <<>>
    /\ to = <<>>
    /\ links = <<>>
    /\ calls \in [1..NumCalls -> {Idle(xtags) : xtags \in SharedMaps}]
    /\ Fresh

SpecShared == InitShared /\ [][NextShared]_vars

\* anchoring a pattern text, alone, in compile_search and in rename
NextAnchor == ExpandRegex \/ PsExpandRegex \/ CompileSearch \/ Rename

InitAnchor ==
    /\ tags \in {<< <<<<"a">>, None>> >>, << <<<<"a", "a">>, Some(<<"1">>)>> >>}
    /\ term \in PatternTexts
    /\ from = term
    /\ to = <<"x">>
    /\ links = <<>>
    /\ calls = <<>>
    /\ Fresh

SpecAnchor == InitAnchor /\ [][NextAnchor]_vars

\* comparisons with bounds and values at the ends of the 32-bit range
InitRange == InitWith(RangeTerms, RangeMaps)

SpecRange == InitRange /\ [][Next]_vars

\* renaming the keys of a map
NextRename == Rename

InitRename ==
    /\ tags \in RenameMaps
    /\ term = <<>>
    /\ from \in FindPatterns
    /\ to \in Templates
    /\ links = <<>>
    /\ calls = <<>>
    /\ Fresh

SpecRename == InitRename /\ [][NextRename]_vars

(***************************************************************************)
(* Properties of the evaluation of AND, OR and NOT.                        *)
(***************************************************************************)
Keys(xtags) == {xtags[i][1] : i \in 1..Len(xtags)}

Has(c) == <<c>> \in Keys(tags)

Evaluated == op \in {"parse_search", "is_match"}

TermABCD == <<"a">> \o AndWord \o <<"b">> \o OrWord \o <<"c">> \o AndWord \o <<"d">>

TermNotAAndB == NotWord \o <<"a">> \o AndWord \o <<"b">>

TermNotGroup == NotWord \o Paren(<<"a">> \o AndWord \o <<"b">>)

\* C1 as the spec states it: AND binds tighter than OR, so that
\* `a AND b OR c AND d` is (a AND b) OR (c AND d) on every tag map.
C1_AndBindsTighterThanOr ==
    (Evaluated /\ term = TermABCD) =>
        (result.err = "" /\ result.val = ((Has("a") /\ Has("b")) \/ (Has("c") /\ Has("d"))))

\* C1, amended: AND and OR have the same priority and associate to the left,
\* so that `a AND b OR c AND d` is ((a AND b) OR c) AND d on every tag map:
\* it matches {a,b,d} and {c,d} and matches neither {a} nor {a,b}.
C1_ABCDFoldsLeft ==
    (Evaluated /\ term = TermABCD) =>
        (result.err = "" /\ result.val = (((Has("a") /\ Has("b")) \/ Has("c")) /\ Has("d")))

C1_Witness ==
    /\ op = "parse_search"
    /\ term = TermABCD
    /\ Keys(tags) = {<<"a">>, <<"b">>}
    /\ result = Ok(FALSE)

\* the operand u of a chain is a tag or a negated tag
PlainTag(u) ==
    /\ u.rule = "unary_expr" /\ Len(u.inner) = 1
    /\ Len(u.inner[1].inner) = 1
    /\ u.inner[1].inner[1].rule = "tag_with_regex"

SimpleOperand(u) ==
    \/ PlainTag(u)
    \/ u.rule = "unary_expr" /\ Len(u.inner) = 2 /\ u.inner[1].rule = "not" /\ PlainTag(u.inner[2])

OperandValue(u) ==
    IF Len(u.inner) = 2
    THEN u.inner[2].inner[1].inner[1].str \notin Keys(tags)
    ELSE u.inner[1].inner[1].str \in Keys(tags)

FlatChain(p) ==
    /\ p.rule = "binary_expr"
    /\ \A i \in 1..Len(p.inner) : i % 2 = 1 => SimpleOperand(p.inner[i])

\* ((e1 op1 e2) op2 e3) ... up to the operand at position n of the chain
RECURSIVE LeftFold(_, _)
LeftFold(inner, n) ==
    IF n = 1 THEN OperandValue(inner[1])
    ELSE IF inner[n - 1].rule = "and" THEN LeftFold(inner, n - 2) /\ OperandValue(inner[n])
    ELSE LeftFold(inner, n - 2) \/ OperandValue(inner[n])

\* C2: AND and OR have equal priority and are applied strictly left to right:
\* e1 op1 e2 op2 e3 ... evaluates as ((e1 op1 e2) op2 e3) ... on every tag
\* map; `a AND b OR c AND d` matches {a,b,d} and {c,d} and not {a,b}.
C2_EqualPriorityLeftToRight ==
    /\ (Evaluated /\ FlatChain(pair)) =>
           (result.err = "" /\ result.val = LeftFold(pair.inner, Len(pair.inner)))
    /\ (Evaluated /\ term = TermABCD /\ Keys(tags) \in {{<<"a">>, <<"b">>, <<"d">>}, {<<"c">>, <<"d">>}}) =>
           result = Ok(TRUE)
    /\ (Evaluated /\ term = TermABCD /\ Keys(tags) = {<<"a">>, <<"b">>}) => result = Ok(FALSE)

C2_Witness ==
    /\ op = "parse_search"
    /\ term = <<"a">> \o OrWord \o <<"b">> \o AndWord \o <<"c">>
    /\ FlatChain(pair)
    /\ Keys(tags) = {<<"a">>}
    /\ result = Ok(FALSE)

\* C3: NOT binds tighter than AND and OR: `NOT a AND b` is (NOT a) AND b on
\* every tag map, and `NOT (a AND b)` negates the whole group.
C3_NotBindsTighter ==
    /\ (Evaluated /\ term = TermNotAAndB) =>
           (result.err = "" /\ result.val = (~Has("a") /\ Has("b")))
    /\ (Evaluated /\ term = TermNotGroup) =>
           (result.err = "" /\ result.val = ~(Has("a") /\ Has("b")))

C3_Witness ==
    /\ op = "parse_search"
    /\ term = TermNotAAndB
    /\ Keys(tags) = {<<"b">>}
    /\ result = Ok(TRUE)

(***************************************************************************)
(* Properties of the comparisons and of tag matching.                      *)
(***************************************************************************)
\* the term is one comparison `tag op value`
IsComparison(p) ==
    /\ p.rule = "binary_expr" /\ Len(p.inner) = 1
    /\ Len(p.inner[1].inner) = 1
    /\ Len(p.inner[1].inner[1].inner) = 3

CmpTag == pair.inner[1].inner[1].inner[1].str

CmpOp == pair.inner[1].inner[1].inner[2].rule

CmpValue == pair.inner[1].inner[1].inner[3].str

\* the term is one tag pattern
IsTagTerm(p) == p.rule = "binary_expr" /\ Len(p.inner) = 1 /\ PlainTag(p.inner[1])

Anchored(re) == <<"^">> \o re \o <<"$">>

\* the anchored pattern finds a match in s: what the compiled regex decides
Matches(re, s) == RegexIsMatch(Anchored(re), s)

\* the pattern matches s from its first to its last character
FullMatch(re, s) ==
    \E n \in 1..Len(Branches(re)) : (Len(s) + 1) \in Ends(Branches(re)[n], 1, s, {1})

OrderingOps == {"less", "less_equal", "greater", "greater_equal"}

Compare(rule, a, b) ==
    CASE rule = "less" -> a < b
      [] rule = "less_equal" -> a <= b
      [] rule = "greater" -> a > b
      [] rule = "greater_equal" -> a >= b

\* C4: `tag != value` is exactly Not(`tag == value`) on every tag map: true
\* whenever no entry has a matching key and a matching value, so true when
\* no key matches (the empty map included), and never an error.
C4_NotEqualsIsNotEquals ==
    (Evaluated /\ IsComparison(pair) /\ CmpOp = "inequal") =>
        /\ result.err = ""
        /\ result.val = ~(\E i \in 1..Len(tags) :
                            /\ Matches(CmpTag, tags[i][1])
                            /\ tags[i][2] # None
                            /\ Matches(CmpValue, tags[i][2][1]))
        /\ (~(\E i \in 1..Len(tags) : Matches(CmpTag, tags[i][1]))) => result.val

\* C5: `tag == value` is true iff some entry has a key that tag matches as a
\* whole, a value, and a value that the value pattern matches as a whole.
C5_EqualsIsExistential ==
    (Evaluated /\ IsComparison(pair) /\ CmpOp = "equal") =>
        /\ result.err = ""
        /\ result.val = (\E i \in 1..Len(tags) :
                            /\ FullMatch(CmpTag, tags[i][1])
                            /\ tags[i][2] # None
                            /\ FullMatch(CmpValue, tags[i][2][1]))

C7_BadBoundIsIntParse ==
    (IsComparison(pair) /\ CmpOp \in OrderingOps /\ parse_i32(CmpValue).err # "") =>
        /\ op = "compile_search" => searcher.err = "IntParse"
        /\ op = "parse_search" => result.err = "IntParse"

\* C8: a tag pattern is true iff some key matches it as a whole.
C8_TagMatchesWholeKey ==
    (Evaluated /\ IsTagTerm(pair)) =>
        /\ result.err = ""
        /\ result.val = (\E i \in 1..Len(tags) : FullMatch(pair.inner[1].inner[1].inner[1].str, tags[i][1]))

(***************************************************************************)
(* Properties of printing and of the tag list codec.                       *)
(***************************************************************************)
\* C9: printing is a fixed point: the text s printed for a compiled term
\* compiles, and the Searcher compiled from s prints as s again.
C9_PrintIsFixedPoint ==
    [][/\ (op = "feed" /\ op' = "compile_search") => searcher'.err = ""
       /\ (op = "compile_search" /\ term = text /\ op' = "fmt") => text' = text]_vars

\* `a != ^1$` was printed, fed back, compiled and printed again
C9_Witness ==
    /\ op = "fmt"
    /\ term = text
    /\ searcher.err = "" /\ searcher.val.k = "Not" /\ searcher.val.lhs.k = "Equal"
    /\ text = <<"N", "O", "T", " ", "(", "^", "a", "$", " ", "=", "=", " ", "^", "1", "$", ")">>

NoSeparator(s) == \A i \in 1..Len(s) : s[i] \notin {",", "="}

NoSeparators(xtags) ==
    \A i \in 1..Len(xtags) :
        NoSeparator(xtags[i][1]) /\ (xtags[i][2] # None => NoSeparator(xtags[i][2][1]))

Canonical(xtags) ==
    \A i \in 1..Len(xtags) :
        /\ IsToken(xtags[i][1]) /\ NoSeparator(xtags[i][1])
        /\ xtags[i][2] # None => (IsToken(xtags[i][2][1]) /\ NoSeparator(xtags[i][2][1]))

\* the tags read back are the tags written
ReadBack == decoded.err = "" /\ Range(decoded.val) = Range(tags)

\* C10 as the spec states it: every map whose keys and values hold no `,` and
\* no `=` is read back as written, empty or blank-padded keys and values included.
C10_RoundTrip == (op = "get_tags" /\ xattr # None /\ NoSeparators(tags)) => ReadBack

\* C10, amended: every map whose keys and values are not empty and hold no
\* `,`, no `=` and no white space is read back as written, as a set of
\* (key, optional value) pairs, whatever the iteration orders.
C10_CanonicalRoundTrip == (op = "get_tags" /\ xattr # None /\ Canonical(tags)) => ReadBack

C10_Witness ==
    /\ op = "get_tags"
    /\ tags = << <<<<"a">>, Some(<<"1">>)>>, <<<<"b">>, None>> >>
    /\ xattr = Some(<<"a", "=", "1", ",", "b">>)
    /\ decoded = Ok(<< <<<<"b">>, None>>, <<<<"a">>, Some(<<"1">>)>> >>)

(***************************************************************************)
(* Properties of rename.                                                   *)
(***************************************************************************)
\* the match of the find pattern with the whole of s, if there is one: the
\* first branch, and its preferred outcome, that reaches from the first to
\* the last character
WholeMatch(find, s) ==
    LET bs == Branches(find)
        outcomes(n) == MatchFrom(bs[n], 1, s, 1, NoCaptures(OpensBefore(find, n)))
        whole(n) == {r \in 1..Len(outcomes(n)) : outcomes(n)[r].end = Len(s) + 1}
        hit == {n \in 1..Len(bs) : whole(n) # {}}
    IN  IF hit = {} THEN <<>>
        ELSE LET n == CHOOSE m \in hit : \A k \in hit : m <= k
                 r == CHOOSE q \in whole(n) : \A k \in whole(n) : q <= k
             IN  <<[start |-> 1, end |-> Len(s) + 1, caps |-> outcomes(n)[r].caps]>>

\* the key the entry with key k is to get: the template with the
\* groups of the whole match filled in, or k itself when the find pattern
\* does not match the whole of k
Substituted(k) ==
    IF WholeMatch(from, k) = <<>> THEN k ELSE CapturesExpand(to, WholeMatch(from, k)[1], k)

\* the last entry of tags, in the order rename visits them, that gets the key nk
LastWith(nk) ==
    CHOOSE i \in 1..Len(tags) :
        /\ Substituted(tags[i][1]) = nk
        /\ \A j \in 1..Len(tags) : Substituted(tags[j][1]) = nk => j <= i

\* C11: rename gives a new map in which every entry is (substituted key,
\* original value) of an entry of tags: values are unchanged, a key the
\* anchored find pattern does not match as a whole is kept as is, no entry
\* is invented, there are at most as many entries as in tags and fewer only
\* when two rewritten keys collide, where the last processed entry wins;
\* find `f(.)om` and replace `to$1` turn {from: value} into {tor: value}.
C11_RenameRewritesKeys ==
    (op = "rename" /\ RegexNew(expand_regex(from)).err = "") =>
        /\ renamed.err = ""
        /\ \A e \in Range(renamed.val) :
              \E i \in 1..Len(tags) : e = <<Substituted(tags[i][1]), tags[i][2]>>
        /\ \A i \in 1..Len(tags) : Substituted(tags[i][1]) \in Keys(renamed.val)
        /\ \A e \in Range(renamed.val) : e[2] = tags[LastWith(e[1])][2]
        /\ Len(renamed.val) <= Len(tags)
        /\ Len(renamed.val) < Len(tags) =>
              \E i, j \in 1..Len(tags) : i # j /\ Substituted(tags[i][1]) = Substituted(tags[j][1])
        /\ (/\ from = <<"f", "(", ".", ")", "o", "m">> /\ to = <<"t", "o", "$", "1">>
            /\ tags = << <<<<"f", "r", "o", "m">>, Some(<<"v", "a", "l", "u", "e">>)>> >>) =>
              renamed.val = << <<<<"t", "o", "r">>, Some(<<"v", "a", "l", "u", "e">>)>> >>

(***************************************************************************)
(* Properties of the errors.                                               *)
(***************************************************************************)
\* C12: a term that no production of the grammar matches, `a b c` for one,
\* is rejected with a parse error value: parsing it does not panic and gives
\* no boolean, whatever the tag map, and leaves the tag map as it was.
C12_SyntaxErrorIsReturned ==
    [][(SearchParser_parse(term).err # "") =>
          /\ tags' = tags
          /\ op' = "parse_search" => result'.err = "Parser"
          /\ op' = "compile_search" => searcher'.err = "Parser"
          /\ op' # "is_match"]_vars

C12_Witness ==
    /\ op = "parse_search"
    /\ term = <<"a", " ", "b", " ", "c">>
    /\ Keys(tags) = {<<"a">>, <<"b">>, <<"c">>}
    /\ result = Err("Parser")

(***************************************************************************)
(* Properties of bookmarks.                                                *)
(***************************************************************************)
\* the term with the text of each bookmark, in parentheses, in the place of
\* its reference
Parenthesised(s) == Splice(s, <<"(">>, <<")">>)

Readable(path) == read_link(path).err = "" /\ read_link(path).val.utf8

\* C13: a bookmark reference has implicit parentheses: whatever the text B
\* of the bookmark and the term around the reference, the term compiles and
\* evaluates on every tag map as the term with `(B)` in the place of the
\* reference; with B = `a or b`, `{n} and c` matches {a,c} and matches
\* neither {c} nor {a}.
C13_BookmarkHasParentheses ==
    /\ (op = "compile_search" /\ Readable(<<"n">>)) =>
           searcher.err = compile_search(Parenthesised(term)).err
    /\ (op = "is_match" /\ Readable(<<"n">>)) =>
           result = Ok(is_match(compile_search(Parenthesised(term)).val, tags))
    /\ (/\ op = "is_match" /\ term = <<"{", "n", "}">> \o LowerAnd \o <<"c">>
        /\ Readable(<<"n">>) /\ links[<<"n">>].text = <<"a">> \o LowerOr \o <<"b">>) =>
           result = Ok((Has("a") \/ Has("b")) /\ Has("c"))

\* `c or {n}` with the bookmark `a AND b` on {c}: c or (a AND b)
C13_Witness ==
    /\ op = "is_match"
    /\ term = <<"c">> \o LowerOr \o <<"{", "n", "}">>
    /\ Readable(<<"n">>) /\ links[<<"n">>].text = <<"a">> \o AndWord \o <<"b">>
    /\ Keys(tags) = {<<"c">>}
    /\ result = Ok(TRUE)

(***************************************************************************)
(* Properties of the order of evaluation.                                  *)
(***************************************************************************)
\* the term is `l AND r` or `l OR r` with a tag or a negated tag for l
TwoOperands(p) == p.rule = "binary_expr" /\ Len(p.inner) = 3 /\ SimpleOperand(p.inner[1])

\* the left operand decides: it is false under AND or true under OR
LeftDecides(p) ==
    \/ p.inner[2].rule = "and" /\ ~OperandValue(p.inner[1])
    \/ p.inner[2].rule = "or" /\ OperandValue(p.inner[1])

\* C14: AND and OR short-circuit: the right operand is evaluated only after
\* the left one has evaluated to true (AND) or to false (OR).  So when the
\* left operand decides, exactly one leaf has been evaluated, the outcome is
\* the value of the left operand, and no failure of the right operand, an
\* invalid pattern for one, is observed.
C14_ShortCircuit ==
    (Evaluated /\ TwoOperands(pair) /\ LeftDecides(pair)) =>
        /\ result.err = ""
        /\ result.val = OperandValue(pair.inner[1])
        /\ Len(visited) = 1

(***************************************************************************)
(* Properties of calls that share a Searcher.                              *)
(***************************************************************************)
\* C15: a compiled Searcher is immutable and is_match is pure: no step of a
\* call changes the Searcher or a tag map, and however the steps of the
\* calls that share the Searcher interleave, each call returns what
\* is_match gives for its own tag map alone; so two calls on equal maps
\* return the same.
C15_SharedSearcherIsPure ==
    [][/\ op' \in {"call", "step", "return"} =>
            /\ searcher' = searcher
            /\ \A w \in 1..NumCalls : calls'[w].map = calls[w].map
       /\ \A w \in 1..NumCalls :
            calls'[w].state = "done" => calls'[w].out = is_match(searcher'.val, calls'[w].map)
       /\ \A v, w \in 1..NumCalls :
            (calls'[v].state = "done" /\ calls'[w].state = "done" /\ calls'[v].map = calls'[w].map) =>
                calls'[v].out = calls'[w].out]_vars

\* call 2 has returned false while call 1, on another map, is under way on
\* the same Searcher and holds the value of a subterm
C15_Witness ==
    /\ searcher.err = "" /\ searcher.val.k = "And"
    /\ calls[2].state = "done" /\ ~calls[2].out
    /\ calls[1].state = "running" /\ calls[1].work # <<>> /\ calls[1].vals = <<TRUE>>
    /\ calls[1].map # calls[2].map
    /\ is_match(searcher.val, calls[1].map)

(***************************************************************************)
(* Properties of the anchoring rule.                                       *)
(***************************************************************************)
IsAnchored(t) == starts_with(t, "^") /\ ends_with(t, "$")

\* C16: the anchoring rule gives an anchored text and is idempotent: for
\* every pattern text t the outcome begins with `^` and ends with `$`, a
\* text that already does is returned unchanged, and the rule applied to
\* its own outcome changes nothing; search compilation and rename use this
\* one rule.
C16_AnchoringIsIdempotent ==
    /\ op \in {"expand_regex", "ps_expand_regex"} =>
          /\ IsAnchored(text)
          /\ IsAnchored(term) => text = term
          /\ text = expand_regex(term)
    /\ op = "expand_regex" => expand_regex(text) = text
    /\ op = "ps_expand_regex" => ps_expand_regex(text) = text
    /\ (op = "compile_search" /\ searcher.err = "" /\ searcher.val.k = "Tag") =>
          searcher.val.regex = expand_regex(term)
    /\ (op = "rename" /\ renamed.err = "") =>
          Keys(renamed.val) = {Regex_replace_all(expand_regex(from), k, to) : k \in Keys(tags)}

(***************************************************************************)
(* Properties of the range of the integers.                                *)
(***************************************************************************)
\* the digits of a numeral without its sign and leading zeros
RECURSIVE StripZeros(_)
StripZeros(s) == IF Len(s) > 1 /\ Head(s) = "0" THEN StripZeros(Tail(s)) ELSE s

Magnitude(s) == StripZeros(IF s # <<>> /\ Head(s) \in {"+", "-"} THEN Tail(s) ELSE s)

IsNumeral(s) == Magnitude(s) # <<>> /\ \A i \in 1..Len(Magnitude(s)) : IsDigit(Magnitude(s)[i])

\* a <= b for two digit texts of one length
RECURSIVE DigitsLeq(_, _)
DigitsLeq(a, b) ==
    IF a = <<>> THEN TRUE
    ELSE IF DigitVal(Head(a)) < DigitVal(Head(b)) THEN TRUE
    ELSE IF DigitVal(Head(a)) > DigitVal(Head(b)) THEN FALSE
    ELSE DigitsLeq(Tail(a), Tail(b))

\* the numeral s denotes a number from -2^31 to 2^31 - 1
WithinI32(s) ==
    /\ IsNumeral(s)
    /\ \/ Len(Magnitude(s)) < 10
       \/ /\ Len(Magnitude(s)) = 10
          /\ DigitsLeq(Magnitude(s),
                       IF Head(s) = "-" THEN <<"2", "1", "4", "7", "4", "8", "3", "6", "4", "8">>
                       ELSE <<"2", "1", "4", "7", "4", "8", "3", "6", "4", "7">>)

\* C17: the comparisons <, <=, >, >= work on 32-bit signed integers: a
\* value outside -2^31 .. 2^31 - 1 is like a value that is no number, never
\* a match even if the comparison holds of the number it denotes; a bound
\* outside that range is rejected with IntParse; within the range the
\* outcome is the comparison of the two numbers, nothing wraps around.
C17_ComparesWithinI32 ==
    (IsComparison(pair) /\ CmpOp \in OrderingOps) =>
        /\ ~WithinI32(CmpValue) =>
              /\ op = "compile_search" => searcher.err = "IntParse"
              /\ op = "parse_search" => result.err = "IntParse"
        /\ (WithinI32(CmpValue) /\ Evaluated) =>
              /\ result.err = ""
              /\ result.val = (\E i \in 1..Len(tags) :
                                  /\ Matches(CmpTag, tags[i][1])
                                  /\ tags[i][2] # None
                                  /\ WithinI32(tags[i][2][1])
                                  /\ Compare(CmpOp, parse_i32(tags[i][2][1]).val, parse_i32(CmpValue).val))
====
